---- MODULE Spec2Model ----
(***************************************************************************)
(* Model of erddap/assemble_erddap_datasets_xml.py (and of the type lookup *)
(* of erddap/assemble_basic_errdap_variables_dict.py).                     *)
(*                                                                         *)
(* A Python str is a sequence of atoms: an atom is a piece of text that no *)
(* operation of the program looks into (a name, a separator, a piece of a  *)
(* template).  "+" and str.format are concatenation, str.join interleaves  *)
(* the separator.  A Python dict is the sequence of its items in insertion *)
(* order, [key, value] records with distinct keys, or, where only lookups  *)
(* are made, a TLA+ function whose DOMAIN is the set of keys.  A call that *)
(* can raise returns [exc, val]: exc = "" when it returned val.            *)
(***************************************************************************)
EXTENDS Integers, Sequences, FiniteSets, TLC

\* ------------------------------------------------------------------ bounds
MaxItems == 2
MaxAttrs == 2
MaxVars == 2
MaxGroups == 2
MaxFiles == 2

\* ------------------------------------------------------- Python primitives
Ok(v) == [exc |-> "", val |-> v]
Raise(e) == [exc |-> e, val |-> <<>>]

\* dict.get(key, default)
Get(d, key, default) == IF key \in DOMAIN d THEN d[key] ELSE default

RECURSIVE JoinFrom(_, _, _)
JoinFrom(sep, parts, i) ==
    IF i > Len(parts) THEN <<>>
    ELSE IF i = Len(parts) THEN parts[i]
    ELSE parts[i] \o sep \o JoinFrom(sep, parts, i + 1)

\* sep.join(parts)
Join(sep, parts) == JoinFrom(sep, parts, 1)

\* s.split(sep): the pieces of s between the atoms sep, at least one piece
RECURSIVE SplitFrom(_, _, _, _)
SplitFrom(s, sep, i, cur) ==
    IF i > Len(s) THEN <<cur>>
    ELSE IF s[i] = sep THEN <<cur>> \o SplitFrom(s, sep, i + 1, <<>>)
    ELSE SplitFrom(s, sep, i + 1, Append(cur, s[i]))
split(s, sep) == SplitFrom(s, sep, 1, <<>>)

\* template.format(**fields): a template is a sequence of parts [ph, s], the
\* literal text s or, when ph, the placeholder {s}
format(template, fields) ==
    IF \E i \in 1..Len(template) :
           template[i].ph /\ template[i].s \notin DOMAIN fields
    THEN Raise("KeyError")
    ELSE Ok(Join(<<>>, [i \in 1..Len(template) |->
                          IF template[i].ph THEN fields[template[i].s]
                          ELSE <<template[i].s>>]))

\* str(type(x)) of a value whose class is named pytype
StrOfType(pytype) == "<class '" \o pytype \o "'>"

\* every sequence of length at most n over S, and those without repetition
SeqsUpTo(S, n) == UNION {[1..k -> S] : k \in 0..n}
DistinctSeqsUpTo(S, n) ==
    {s \in SeqsUpTo(S, n) : \A i, j \in 1..Len(s) : i # j => s[i] # s[j]}

\* ---------------------------------------------------------- the type map
\* a variant of the table with the tag of uint16 mistyped
ERDDAP_NPY_TYPE_MAP_Uint16Short ==
    [k \in {"byte", "int8", "int16", "uint16", "int32", "int64", "float",
            "float32", "float64", "|S1", "string", "str"} |->
        CASE k \in {"byte", "int8"} -> "byte"
          [] k \in {"int16", "uint16"} -> "short"
          [] k = "int32" -> "int"
          [] k = "int64" -> "long"
          [] k \in {"float", "float32"} -> "float"
          [] k = "float64" -> "double"
          [] k \in {"|S1", "string", "str"} -> "String"]

ERDDAP_NPY_TYPE_MAP ==
    [k \in {"byte", "int8", "int16", "uint16", "int32", "int64", "float",
            "float32", "float64", "|S1", "string", "str"} |->
        CASE k = "byte" -> "byte"
          [] k = "int8" -> "byte"
          [] k = "int16" -> "short"
          [] k = "uint16" -> "char"
          [] k = "int32" -> "int"
          [] k = "int64" -> "long"
          [] k = "float" -> "float"
          [] k = "float32" -> "float"
          [] k = "float64" -> "double"
          [] k = "|S1" -> "String"
          [] k = "string" -> "String"
          [] k = "str" -> "String"]

\* the type map of the basic script (no "float", "string", "str" keys)
BASIC_ERDDAP_NPY_TYPE_MAP ==
    [k \in {"byte", "int8", "int16", "uint16", "int32", "int64",
            "float32", "float64", "|S1"} |-> ERDDAP_NPY_TYPE_MAP[k]]

\* ---------------------------------------------------- attribute rendering
\* An attribute value is [kind, dtype, items]: kind is the branch of the
\* isinstance chain it takes ("generic": np.generic, "ndarray": np.ndarray,
\* "list": list, "other": anything else), dtype is str(attr.dtype) of the
\* numpy kinds, items are its elements, [pytype, repr]: the name of the
\* element's class and str(element).  A scalar has exactly one item.
ItemStrs(attr) == [i \in 1..Len(attr.items) |-> <<attr.items[i].repr>>]

get_attr_name_type_val_for_erddap(name, attr) ==
    IF attr.kind = "generic" THEN
        Ok([name |-> name,
            type |-> Get(ERDDAP_NPY_TYPE_MAP, attr.dtype, "float"),
            value |-> <<attr.items[1].repr>>])
    ELSE IF attr.kind = "ndarray" THEN
        Ok([name |-> name,
            type |-> Get(ERDDAP_NPY_TYPE_MAP, attr.dtype, "float"),
            value |-> Join(<<" ">>, ItemStrs(attr))])
    ELSE IF attr.kind = "list" THEN
        IF Len(attr.items) = 0 THEN Raise("IndexError")
        ELSE Ok([name |-> name,
                 type |-> Get(ERDDAP_NPY_TYPE_MAP,
                              StrOfType(attr.items[1].pytype), "String"),
                 value |-> Join(<<" ">>, ItemStrs(attr))])
    ELSE
        Ok([name |-> name,
            type |-> Get(ERDDAP_NPY_TYPE_MAP,
                         StrOfType(attr.items[1].pytype), "String"),
            value |-> <<attr.items[1].repr>>])

\* ERDDAP_ATT_TAG.format(name=, type=, value=)
ERDDAP_ATT_TAG(f) ==
    <<"    <att name=\"", f.name, "\" type=\"", f.type, "\">">>
        \o f.value \o <<"</att>">>

\* a variant that joins the tags with a space
create_att_tags_JoinedBySpace(atts) ==
    LET r == [i \in 1..Len(atts) |->
                 get_attr_name_type_val_for_erddap(atts[i].k, atts[i].v)]
    IN  IF \E i \in 1..Len(atts) : r[i].exc # ""
        THEN Raise("IndexError")
        ELSE Ok(Join(<<" ">>,
                     [i \in 1..Len(atts) |-> ERDDAP_ATT_TAG(r[i].val)]))

\* atts: the items of the attribute dict, [k, v] records
create_att_tags(atts) ==
    LET r == [i \in 1..Len(atts) |->
                 get_attr_name_type_val_for_erddap(atts[i].k, atts[i].v)]
    IN  IF \E i \in 1..Len(atts) : r[i].exc # ""
        THEN Raise(r[CHOOSE i \in 1..Len(atts) :
                        /\ r[i].exc # ""
                        /\ \A j \in 1..(i - 1) : r[j].exc = ""].exc)
        ELSE Ok(Join(<<"\n">>,
                     [i \in 1..Len(atts) |-> ERDDAP_ATT_TAG(r[i].val)]))

\* {k: nc_var.getncattr(k) for k in nc_var.ncattrs()}
load_var_attr_dict(nc_var) == nc_var.attrs

\* ------------------------------------------------- variable descriptors
\* d[key] = value on a dict kept as its items in insertion order
DictSet(d, key, value) ==
    IF \E i \in 1..Len(d) : d[i].k = key
    THEN [i \in 1..Len(d) |-> IF d[i].k = key THEN [k |-> key, v |-> value]
                                               ELSE d[i]]
    ELSE Append(d, [k |-> key, v |-> value])

\* A variable is [name, dtype, dimensions, attrs]; data.variables is the
\* sequence of the file's variables, names distinct.  user_config_variable_attrs
\* maps variable names to dicts (functions from attribute names).

\* a variant that ignores the override, as the basic script does
VariableDescriptor_NoOverride(var, user_config_variable_attrs) ==
    [dataType |-> Get(ERDDAP_NPY_TYPE_MAP, var.dtype, "float64"),
     sourceName |-> var.name,
     destinationName |-> var.name,
     attributes |-> load_var_attr_dict(var)]

\* lines 94-107: the descriptor of one variable
VariableDescriptor(var, user_config_variable_attrs) ==
    LET varname == var.name
        vatts == Get(user_config_variable_attrs, varname, <<>>)
    IN  [dataType |-> Get(ERDDAP_NPY_TYPE_MAP, var.dtype, "float64"),
         sourceName |-> varname,
         destinationName |-> Get(vatts, "destinationName", varname),
         attributes |-> load_var_attr_dict(var)]

RECURSIVE AssembleFrom(_, _, _, _)
AssembleFrom(vars, user_config_variable_attrs, i, out) ==
    IF i > Len(vars) THEN out
    ELSE AssembleFrom(vars, user_config_variable_attrs, i + 1,
             DictSet(out, vars[i].name,
                     VariableDescriptor(vars[i], user_config_variable_attrs)))

assemble_erddap_variables_dict(data, user_config_variable_attrs) ==
    AssembleFrom(data.variables, user_config_variable_attrs, 1, <<>>)

\* the basic script: no override, no attributes, and its own type map
RECURSIVE BasicAssembleFrom(_, _, _)
BasicAssembleFrom(vars, i, out) ==
    IF i > Len(vars) THEN out
    ELSE BasicAssembleFrom(vars, i + 1,
             DictSet(out, vars[i].name,
                 [dataType |-> Get(BASIC_ERDDAP_NPY_TYPE_MAP, vars[i].dtype,
                                   "float64"),
                  sourceName |-> vars[i].name,
                  destinationName |-> vars[i].name]))

assemble_basic_erddap_variables_dict(data) ==
    BasicAssembleFrom(data.variables, 1, <<>>)

\* ERDDAP_DATAVARIABLE_STR.format(attributes=, **x)
ERDDAP_DATAVARIABLE_STR(x, attributes) ==
    <<"\n<dataVariable>\n  <sourceName>", x.sourceName,
      "</sourceName>\n  <destinationName>", x.destinationName,
      "</destinationName>\n  <dataType>", x.dataType,
      "</dataType>\n  <addAttributes>\n">>
        \o attributes \o <<"\n  </addAttributes>\n</dataVariable>">>

dump_variables_as_erddap_string(vardict) ==
    LET t == [i \in 1..Len(vardict) |-> create_att_tags(vardict[i].v.attributes)]
    IN  IF \E i \in 1..Len(vardict) : t[i].exc # ""
        THEN Raise(t[CHOOSE i \in 1..Len(vardict) :
                        /\ t[i].exc # ""
                        /\ \A j \in 1..(i - 1) : t[j].exc = ""].exc)
        ELSE Ok(Join(<<"\n">>,
                     [i \in 1..Len(vardict) |->
                         ERDDAP_DATAVARIABLE_STR(vardict[i].v, t[i].val)]))

\* ------------------------------------------------- dimension-group tags
\* a variant of the inner loop without the break
RECURSIVE ScanDimensions_NoBreak(_, _, _, _)
ScanDimensions_NoBreak(v, dim_names, vars_attrs_dict, i) ==
    IF i > Len(v.dimensions) THEN <<>>
    ELSE (IF \E j \in 1..Len(dim_names) : dim_names[j] = v.dimensions[i]
          THEN <<Get(Get(vars_attrs_dict, v.name, <<>>), "destinationName", v.name)>>
          ELSE <<>>)
         \o ScanDimensions_NoBreak(v, dim_names, vars_attrs_dict, i + 1)

\* the inner loop of get_cdm_variables from dimension i on: the names it
\* appends for one variable (it breaks at the first match)
RECURSIVE ScanDimensions(_, _, _, _)
ScanDimensions(v, dim_names, vars_attrs_dict, i) ==
    IF i > Len(v.dimensions) THEN <<>>
    ELSE IF \E j \in 1..Len(dim_names) : dim_names[j] = v.dimensions[i]
    THEN <<Get(Get(vars_attrs_dict, v.name, <<>>), "destinationName", v.name)>>
    ELSE ScanDimensions(v, dim_names, vars_attrs_dict, i + 1)

RECURSIVE OutVarsFrom(_, _, _, _)
OutVarsFrom(vars, dim_names, vars_attrs_dict, i) ==
    IF i > Len(vars) THEN <<>>
    ELSE ScanDimensions(vars[i], dim_names, vars_attrs_dict, 1)
            \o OutVarsFrom(vars, dim_names, vars_attrs_dict, i + 1)

get_cdm_variables(ds, dim_names, vars_attrs_dict) ==
    LET out_vars == OutVarsFrom(ds.variables, dim_names, vars_attrs_dict, 1)
    IN  Join(<<",">>, [i \in 1..Len(out_vars) |-> <<out_vars[i]>>])

create_cdm_variables_tag(cdm_data_type, var_str) ==
    <<"<att name=\"cdm_", cdm_data_type, "_variables\">">>
        \o var_str \o <<"</att>">>

\* cdm_data_variable_types: items [k: group name, v: list of dimensions]
RECURSIVE CdmDictFrom(_, _, _, _, _)
CdmDictFrom(types, nc, user_config_var_attrs, i, out) ==
    IF i > Len(types) THEN out
    ELSE CdmDictFrom(types, nc, user_config_var_attrs, i + 1,
             DictSet(out, types[i].k,
                     get_cdm_variables(nc, types[i].v, user_config_var_attrs)))

create_cdm_variables_dict(cdm_data_variable_types, nc, user_config_var_attrs) ==
    CdmDictFrom(cdm_data_variable_types, nc, user_config_var_attrs, 1, <<>>)

create_cdm_variables_tags(cdm_data_variable_type_vars) ==
    Join(<<"\n">>,
         [i \in 1..Len(cdm_data_variable_type_vars) |->
             create_cdm_variables_tag(cdm_data_variable_type_vars[i].k,
                                      cdm_data_variable_type_vars[i].v)])

\* "".join(*dim_var_dict.values()): str.join takes exactly one argument, and
\* joining the characters of a str with "" gives the str back
create_subset_variables_tag(dim_var_dict) ==
    IF Len(dim_var_dict) # 1 THEN Raise("TypeError")
    ELSE Ok(<<"<att name=\"subsetVariables\">">>
            \o Join(<<>>, [i \in 1..Len(dim_var_dict[1].v) |->
                              <<dim_var_dict[1].v[i]>>])
            \o <<"</att>">>)

\* ------------------------------------------------------------ input sets
DTypes ==
    {"byte", "int8", "int16", "uint16", "int32", "int64", "float", "float32",
     "float64", "|S1", "string", "str", "uint8", "uint32", "<U4"}
PyTypes == {"str", "int", "float"}
NumItems == {[pytype |-> "numpy", repr |-> r] : r \in {"1", "2"}}
ListItems == {[pytype |-> "str", repr |-> "a"], [pytype |-> "int", repr |-> "1"]}

AttrValues ==
    {[kind |-> "generic", dtype |-> d, items |-> <<[pytype |-> "numpy", repr |-> "1"]>>] :
        d \in DTypes}
    \cup {[kind |-> "ndarray", dtype |-> d, items |-> it] :
            d \in DTypes, it \in SeqsUpTo(NumItems, MaxItems)}
    \cup {[kind |-> "list", dtype |-> "", items |-> it] :
            it \in SeqsUpTo(ListItems, MaxItems)}
    \cup {[kind |-> "other", dtype |-> "", items |-> <<[pytype |-> t, repr |-> "x"]>>] :
            t \in PyTypes}

AttrNames == {"units", "valid_range", "comment"}
VarNames == {"temp", "sal", "depth"}
Dims == {"dimA", "dimB"}
GroupNames == {"profile", "trajectory", "timeseries"}

DegC == [kind |-> "other", dtype |-> "", items |-> <<[pytype |-> "str", repr |-> "degC"]>>]
Range12 ==
    [kind |-> "ndarray", dtype |-> "int32",
     items |-> <<[pytype |-> "numpy", repr |-> "1"], [pytype |-> "numpy", repr |-> "2"]>>]
Fill1 == [kind |-> "generic", dtype |-> "float64", items |-> <<[pytype |-> "numpy", repr |-> "1"]>>]
EmptyList == [kind |-> "list", dtype |-> "", items |-> <<>>]
MixedList ==
    [kind |-> "list", dtype |-> "",
     items |-> <<[pytype |-> "str", repr |-> "a"], [pytype |-> "int", repr |-> "1"]>>]
AttrSample == {DegC, Range12, Fill1, EmptyList, MixedList}

\* attribute dicts: distinct keys, in any order
AttrDictsOver(values) ==
    UNION {{[i \in 1..Len(ks) |-> [k |-> ks[i], v |-> vs[i]]] :
               vs \in [1..Len(ks) -> values]} :
           ks \in DistinctSeqsUpTo(AttrNames, MaxAttrs)}
AttrDicts == AttrDictsOver(AttrSample)

AttrDictSample ==
    {<<>>,
     <<[k |-> "units", v |-> DegC], [k |-> "valid_range", v |-> Range12]>>,
     <<[k |-> "comment", v |-> EmptyList]>>}

\* files: distinct variable names, in any order
DatasetsOver(dtypes, dimlists, attrdicts) ==
    UNION {{[variables |->
                [i \in 1..Len(ns) |->
                    [name |-> ns[i], dtype |-> b[i][1], dimensions |-> b[i][2],
                     attrs |-> b[i][3]]]] :
               b \in [1..Len(ns) -> dtypes \X dimlists \X attrdicts]} :
           ns \in DistinctSeqsUpTo(VarNames, MaxVars)}

DimLists == DistinctSeqsUpTo(Dims, Cardinality(Dims))
DatasetsA == DatasetsOver({"float64", "uint8"}, {<<>>}, AttrDictSample)
DatasetsD == DatasetsOver({"float64"}, DimLists, {<<>>})
\* one variable of every storage type
DatasetsT ==
    {[variables |-> <<[name |-> "temp", dtype |-> d, dimensions |-> <<>>,
                      attrs |-> <<>>]>>] : d \in DTypes}

UserConfigs ==
    {<<>>,
     [temp |-> [destinationName |-> "T"]],
     [temp |-> [units |-> "K"]],
     [temp |-> [destinationName |-> "sal"]],
     [temp |-> [destinationName |-> "T"], sal |-> [units |-> "psu"]]}

\* cdm_data_type_dims: group name -> list of dimensions
CdmTypeDims ==
    UNION {{[i \in 1..Len(gs) |-> [k |-> gs[i], v |-> ds[i]]] :
               ds \in [1..Len(gs) -> DimLists \ {<<>>}]} :
           gs \in DistinctSeqsUpTo(GroupNames, MaxGroups)}

TempSal ==
    [variables |->
        <<[name |-> "temp", dtype |-> "float64", dimensions |-> <<"dimA">>,
           attrs |-> <<[k |-> "units", v |-> DegC]>>],
          [name |-> "sal", dtype |-> "uint8", dimensions |-> <<"dimB">>,
           attrs |-> <<>>]>>]

\* ------------------------------------------------------------------ state
\* call, ret: a function of the module called on its own, and what it left.
\* The rest is a run of main: pc is its position, cfg the loaded YAML, disk
\* the fragments directory, listing the data directory in glob order;
\* fragment, datasets, fields_dict, nc, header, out_str are main's locals
\* (nc: the index of the file whose Dataset the name nc is bound to, 0 when
\* unbound); handles are the source files whose handle is open; output is the
\* file datasets.<outname>.xml; error is the exception that ended the run.
VARIABLES call, ret,
          pc, cfg, disk, listing, fragment, idx, nc, handles, datasets,
          fields_dict, header, out_str, output, error

callVars == <<call, ret>>
mainVars == <<pc, cfg, disk, listing, fragment, idx, nc, handles, datasets,
              fields_dict, header, out_str, output, error>>
vars == <<call, ret, pc, cfg, disk, listing, fragment, idx, nc, handles,
          datasets, fields_dict, header, out_str, output, error>>

NoCall == [fn |-> ""]

\* what a call left: the exception it raised, or what it returned, in a field
\* named after the kind of value
Raised(e) == [exc |-> e]
Fields(r) == IF r.exc # "" THEN Raised(r.exc) ELSE [exc |-> "", fields |-> r.val]
Text(r) == IF r.exc # "" THEN Raised(r.exc) ELSE [exc |-> "", text |-> r.val]
VarDict(d) == [exc |-> "", vardict |-> d]
CdmDict(d) == [exc |-> "", cdmdict |-> d]

\* --------------------------------------- the functions, called one by one
CallGetAttr ==
    /\ call = NoCall
    /\ UNCHANGED mainVars
    /\ \E name \in AttrNames, attr \in AttrValues :
        /\ call' = [fn |-> "get_attr_name_type_val_for_erddap", name |-> name, attr |-> attr]
        /\ ret' = Fields(get_attr_name_type_val_for_erddap(name, attr))

CallCreateAttTags ==
    /\ call = NoCall
    /\ UNCHANGED mainVars
    /\ \E atts \in AttrDicts :
        /\ call' = [fn |-> "create_att_tags", atts |-> atts]
        /\ ret' = Text(create_att_tags(atts))

CallAssemble ==
    /\ call = NoCall
    /\ UNCHANGED mainVars
    /\ \E data \in DatasetsA \cup DatasetsT, user \in UserConfigs :
        /\ call' = [fn |-> "assemble_erddap_variables_dict", data |-> data,
                    user_config_variable_attrs |-> user]
        /\ ret' = VarDict(assemble_erddap_variables_dict(data, user))

CallBasicAssemble ==
    /\ call = NoCall
    /\ UNCHANGED mainVars
    /\ \E data \in DatasetsA \cup DatasetsT :
        /\ call' = [fn |-> "assemble_basic_erddap_variables_dict", data |-> data]
        /\ ret' = VarDict(assemble_basic_erddap_variables_dict(data))

CallDump ==
    /\ call = NoCall
    /\ UNCHANGED mainVars
    /\ \E data \in DatasetsA, user \in UserConfigs :
        /\ call' = [fn |-> "dump_variables_as_erddap_string",
                    vardict |-> assemble_erddap_variables_dict(data, user)]
        /\ ret' = Text(dump_variables_as_erddap_string(
                           assemble_erddap_variables_dict(data, user)))

CallGetCdm ==
    /\ call = NoCall
    /\ UNCHANGED mainVars
    /\ \E ds \in DatasetsD, dim_names \in DimLists, user \in UserConfigs :
        /\ call' = [fn |-> "get_cdm_variables", ds |-> ds, dim_names |-> dim_names,
                    vars_attrs_dict |-> user]
        /\ ret' = Text(Ok(get_cdm_variables(ds, dim_names, user)))

CallCreateCdmDict ==
    /\ call = NoCall
    /\ UNCHANGED mainVars
    /\ \E types \in CdmTypeDims, user \in UserConfigs :
        /\ call' = [fn |-> "create_cdm_variables_dict",
                    cdm_data_variable_types |-> types, nc |-> TempSal,
                    user_config_var_attrs |-> user]
        /\ ret' = CdmDict(create_cdm_variables_dict(types, TempSal, user))

CallSubsetTag ==
    /\ call = NoCall
    /\ UNCHANGED mainVars
    /\ \E types \in CdmTypeDims :
        /\ call' = [fn |-> "create_subset_variables_tag",
                    dim_var_dict |-> create_cdm_variables_dict(types, TempSal, <<>>)]
        /\ ret' = Text(create_subset_variables_tag(
                           create_cdm_variables_dict(types, TempSal, <<>>)))

InitCalls ==
    /\ call = NoCall
    /\ ret = Raised("")
    /\ pc = "start"
    /\ cfg = [outname |-> "out"]
    /\ disk = [fragment |-> [exists |-> FALSE, text |-> <<>>],
               header |-> [exists |-> FALSE, text |-> <<>>]]
    /\ listing = <<>>
    /\ fragment = <<>>
    /\ idx = 0
    /\ nc = 0
    /\ handles = {}
    /\ datasets = <<>>
    /\ fields_dict = [dataset_id |-> <<>>, filename |-> <<>>, dataVariables |-> <<>>,
                      cdm_variables |-> <<>>, subsetVariables |-> <<>>,
                      erddap_datapath |-> <<>>]
    /\ header = <<>>
    /\ out_str = <<>>
    /\ output = [opened |-> FALSE, text |-> <<>>]
    /\ error = ""

NextCalls ==
    \/ CallGetAttr
    \/ CallCreateAttTags
    \/ CallAssemble
    \/ CallBasicAssemble
    \/ CallDump
    \/ CallGetCdm
    \/ CallCreateCdmDict
    \/ CallSubsetTag

SpecCalls == InitCalls /\ [][NextCalls]_vars

\* ------------------------------------------------------- the run of main
RequiredKeys ==
    {"fragments_path", "datapath", "erddap_datapath", "cdm_data_type_dims",
     "outname", "add_header_footer", "user_config_variable_attrs"}

NoFields ==
    [dataset_id |-> <<>>, filename |-> <<>>, dataVariables |-> <<>>,
     cdm_variables |-> <<>>, subsetVariables |-> <<>>, erddap_datapath |-> <<>>]

\* the files of the data directory that glob("*.nc") yields, in its order
EndsWithNc(name) == Len(name) > 0 /\ name[Len(name)] = ".nc"
RECURSIVE GlobFrom(_, _)
GlobFrom(dir, i) ==
    IF i > Len(dir) THEN <<>>
    ELSE (IF EndsWithNc(dir[i].name) THEN <<dir[i]>> ELSE <<>>)
         \o GlobFrom(dir, i + 1)
glob(dir) == GlobFrom(dir, 1)

Abort(e) ==
    /\ pc' = "aborted"
    /\ error' = e

\* lines 189-199: load the YAML (the file may be missing or not parse, cfg
\* is what it holds when it loads), read the seven required keys
ReadConfig ==
    /\ UNCHANGED callVars
    /\ pc = "start"
    /\ \/ Abort("YAMLError")
       \/ IF RequiredKeys \subseteq DOMAIN cfg
          THEN pc' = "load_fragment" /\ UNCHANGED error
          ELSE Abort("KeyError")
    /\ UNCHANGED <<cfg, disk, listing, fragment, idx, nc, handles, datasets,
                   fields_dict, header, out_str, output>>

\* a variant that opens the output file before the loop
LoadFragment_OpensOutput ==
    /\ UNCHANGED callVars
    /\ pc = "load_fragment"
    /\ IF disk.fragment.exists
       THEN /\ fragment' = disk.fragment.text
            /\ output' = [opened |-> TRUE, text |-> <<>>]
            /\ pc' = "loop"
            /\ UNCHANGED error
       ELSE /\ Abort("FileNotFoundError")
            /\ UNCHANGED <<fragment, output>>
    /\ UNCHANGED <<cfg, disk, listing, idx, nc, handles, datasets,
                   fields_dict, header, out_str>>

\* lines 202-203: read datasets.fragment.xml
LoadFragment ==
    /\ UNCHANGED callVars
    /\ pc = "load_fragment"
    /\ IF disk.fragment.exists
       THEN /\ fragment' = disk.fragment.text
            /\ pc' = "loop"
            /\ UNCHANGED error
       ELSE /\ Abort("FileNotFoundError")
            /\ UNCHANGED fragment
    /\ UNCHANGED <<cfg, disk, listing, idx, nc, handles, datasets,
                   fields_dict, header, out_str, output>>

\* lines 210-213: the next file of the glob; nc = nc4.Dataset(ncfile) opens
\* it and only then rebinds nc, nothing closes the Dataset nc was bound to
OpenDataset ==
    /\ UNCHANGED callVars
    /\ pc = "loop"
    /\ idx < Len(glob(listing))
    /\ IF glob(listing)[idx + 1].readable
       THEN /\ handles' = handles \cup {idx + 1}
            /\ nc' = idx + 1
            /\ idx' = idx + 1
            /\ pc' = "process"
            /\ UNCHANGED error
       ELSE /\ Abort("OSError")
            /\ UNCHANGED <<handles, nc, idx>>
    /\ UNCHANGED <<cfg, disk, listing, fragment, datasets, fields_dict,
                   header, out_str, output>>

\* lines 212-226: the fields of one file, evaluated in the order written
FieldsOf(file, data) ==
    LET _fname == file.name
        user_config_variable_attrs == cfg.user_config_variable_attrs
        cdm_types_vars_dict ==
            create_cdm_variables_dict(cfg.cdm_data_type_dims, data,
                                      user_config_variable_attrs)
        dataVariables ==
            dump_variables_as_erddap_string(
                assemble_erddap_variables_dict(data, user_config_variable_attrs))
        subsetVariables ==
            IF Get(cfg, "use_cdm_vars_as_subset", FALSE)
            THEN create_subset_variables_tag(cdm_types_vars_dict)
            ELSE Ok(<<>>)
    IN  IF dataVariables.exc # "" THEN Raise(dataVariables.exc)
        ELSE IF subsetVariables.exc # "" THEN Raise(subsetVariables.exc)
        ELSE Ok([dataset_id |-> split(_fname, ".nc")[1],
                 filename |-> _fname,
                 dataVariables |-> dataVariables.val,
                 cdm_variables |-> create_cdm_variables_tags(cdm_types_vars_dict),
                 subsetVariables |-> subsetVariables.val,
                 erddap_datapath |-> cfg.erddap_datapath])

\* lines 214-229: fill the fragment for the open file, append it
ProcessFile ==
    /\ UNCHANGED callVars
    /\ pc = "process"
    /\ LET f == FieldsOf(glob(listing)[idx], glob(listing)[idx].data)
           filled == IF f.exc # "" THEN f ELSE format(fragment, f.val)
       IN  IF filled.exc # ""
           THEN /\ Abort(filled.exc)
                /\ fields_dict' = IF f.exc # "" THEN fields_dict ELSE f.val
                /\ UNCHANGED datasets
           ELSE /\ fields_dict' = f.val
                /\ datasets' = Append(datasets, filled.val)
                /\ pc' = "loop"
                /\ UNCHANGED error
    /\ UNCHANGED <<cfg, disk, listing, fragment, idx, nc, handles, header,
                   out_str, output>>

\* a variant without the newline between the header and the body
WithHeaderFooter_NoNewline(h, body) ==
    h \o Join(<<"\n">>, body) \o <<"\n", "</erddapDatasets>">>

\* line 237: "{}\n{}\n</erddapDatasets>".format(header, "\n".join(datasets))
WithHeaderFooter(h, body) ==
    h \o <<"\n">> \o Join(<<"\n">>, body) \o <<"\n", "</erddapDatasets>">>

\* lines 231-240: after the last file, the header (if asked for) and the text
Assemble ==
    /\ UNCHANGED callVars
    /\ pc = "loop"
    /\ idx = Len(glob(listing))
    /\ IF cfg.add_header_footer
       THEN IF disk.header.exists
            THEN /\ header' = disk.header.text
                 /\ out_str' = WithHeaderFooter(disk.header.text, datasets)
                 /\ pc' = "write"
                 /\ UNCHANGED error
            ELSE /\ Abort("FileNotFoundError")
                 /\ UNCHANGED <<header, out_str>>
       ELSE /\ out_str' = Join(<<"\n">>, datasets)
            /\ pc' = "write"
            /\ UNCHANGED <<header, error>>
    /\ UNCHANGED <<cfg, disk, listing, fragment, idx, nc, handles, datasets,
                   fields_dict, output>>

\* lines 242-243: open datasets.<outname>.xml for writing, write, close
WriteOutput ==
    /\ UNCHANGED callVars
    /\ pc = "write"
    /\ output' = [opened |-> TRUE, text |-> out_str]
    /\ pc' = "done"
    /\ UNCHANGED <<cfg, disk, listing, fragment, idx, nc, handles, datasets,
                   fields_dict, header, out_str, error>>

\* main returns, or the exception leaves it: its locals are gone
Return ==
    /\ UNCHANGED callVars
    /\ pc \in {"done", "aborted"}
    /\ nc # 0
    /\ nc' = 0
    /\ UNCHANGED <<pc, cfg, disk, listing, fragment, idx, handles, datasets,
                   fields_dict, header, out_str, output, error>>

\* the interpreter frees a Dataset that no name is bound to, which closes
\* its file; when it does so is up to the interpreter
Dealloc ==
    /\ UNCHANGED callVars
    /\ \E h \in handles \ {nc} : handles' = handles \ {h}
    /\ UNCHANGED <<pc, cfg, disk, listing, fragment, idx, nc, datasets,
                   fields_dict, header, out_str, output, error>>

\* ---- the configurations, the fragments directory and the data directory
Profile == <<[k |-> "profile", v |-> <<"dimA">>]>>
ProfileTrajectory ==
    <<[k |-> "profile", v |-> <<"dimA">>],
      [k |-> "trajectory", v |-> <<"dimB", "dimA">>]>>

FullConfigs ==
    {[fragments_path |-> "fragments", datapath |-> "data",
      erddap_datapath |-> <<"/erddapData">>, cdm_data_type_dims |-> g,
      outname |-> "out", add_header_footer |-> h,
      user_config_variable_attrs |-> u] :
        g \in {<<>>, Profile, ProfileTrajectory}, h \in BOOLEAN,
        u \in {<<>>, [temp |-> [destinationName |-> "T"]]}}
WithSubset(c, b) ==
    [k \in DOMAIN c \cup {"use_cdm_vars_as_subset"} |->
        IF k = "use_cdm_vars_as_subset" THEN b ELSE c[k]]
Without(c, key) == [k \in DOMAIN c \ {key} |-> c[k]]
BaseConfig ==
    [fragments_path |-> "fragments", datapath |-> "data",
     erddap_datapath |-> <<"/erddapData">>, cdm_data_type_dims |-> Profile,
     outname |-> "out", add_header_footer |-> TRUE,
     user_config_variable_attrs |-> <<>>]
Configs ==
    FullConfigs
    \cup {WithSubset(c, b) : c \in FullConfigs, b \in BOOLEAN}
    \cup {Without(BaseConfig, key) : key \in RequiredKeys}

Lit(s) == [ph |-> FALSE, s |-> s]
Ph(s) == [ph |-> TRUE, s |-> s]
FragmentAll ==
    <<Lit("<dataset datasetID=\""), Ph("dataset_id"), Lit("\">"),
      Ph("erddap_datapath"), Lit("/"), Ph("filename"),
      Ph("cdm_variables"), Ph("subsetVariables"), Ph("dataVariables"),
      Lit("</dataset>")>>
FragmentUnknownField ==
    <<Lit("<dataset datasetID=\""), Ph("dataset_id"), Lit("\">"),
      Ph("title"), Lit("</dataset>")>>
Disks ==
    {[fragment |-> f, header |-> h] :
        f \in {[exists |-> TRUE, text |-> FragmentAll],
               [exists |-> TRUE, text |-> FragmentUnknownField],
               [exists |-> FALSE, text |-> <<>>]},
        h \in {[exists |-> TRUE, text |-> <<"<erddapDatasets>">>],
               [exists |-> FALSE, text |-> <<>>]}}

DepthOnly ==
    [variables |->
        <<[name |-> "depth", dtype |-> "int32", dimensions |-> <<"dimB", "dimA">>,
           attrs |-> <<[k |-> "units", v |-> DegC],
                       [k |-> "valid_range", v |-> Range12]>>]>>]
NoVariables == [variables |-> <<>>]
EmptyListAttr ==
    [variables |->
        <<[name |-> "temp", dtype |-> "float32", dimensions |-> <<"dimA">>,
           attrs |-> <<[k |-> "comment", v |-> EmptyList]>>]>>]
DataFiles ==
    {[name |-> <<"a", ".nc">>, readable |-> TRUE, data |-> TempSal],
     [name |-> <<"b", ".nc">>, readable |-> TRUE, data |-> DepthOnly],
     [name |-> <<"c", ".nc">>, readable |-> FALSE, data |-> NoVariables],
     [name |-> <<"a", ".nc", ".v2", ".nc">>, readable |-> TRUE, data |-> NoVariables],
     [name |-> <<"d", ".nc">>, readable |-> TRUE, data |-> EmptyListAttr],
     [name |-> <<"notes", ".txt">>, readable |-> TRUE, data |-> NoVariables]}
Listings == DistinctSeqsUpTo(DataFiles, MaxFiles)

InitMain ==
    /\ pc = "start"
    /\ cfg \in Configs
    /\ disk \in Disks
    /\ listing \in Listings
    /\ fragment = <<>>
    /\ idx = 0
    /\ nc = 0
    /\ handles = {}
    /\ datasets = <<>>
    /\ fields_dict = NoFields
    /\ header = <<>>
    /\ out_str = <<>>
    /\ output = [opened |-> FALSE, text |-> <<>>]
    /\ error = ""

Init ==
    /\ InitMain
    /\ call = NoCall
    /\ ret = Raised("")

Next ==
    \/ ReadConfig
    \/ LoadFragment
    \/ OpenDataset
    \/ ProcessFile
    \/ Assemble
    \/ WriteOutput
    \/ Return
    \/ Dealloc

Spec == Init /\ [][Next]_vars

\* ================================================================ claims
IsCall(fn) == call.fn = fn

\* the table of section 4.1
RecognizedIds ==
    {"byte", "int8", "int16", "uint16", "int32", "int64", "float", "float32",
     "float64", "|S1", "string", "str"}
FixedTag(id) ==
    CASE id \in {"byte", "int8"} -> "byte"
      [] id = "int16" -> "short"
      [] id = "uint16" -> "char"
      [] id = "int32" -> "int"
      [] id = "int64" -> "long"
      [] id \in {"float", "float32"} -> "float"
      [] id = "float64" -> "double"
      [] id \in {"|S1", "string", "str"} -> "String"
TagOrDefault(id, default) == IF id \in RecognizedIds THEN FixedTag(id) ELSE default

\* the type identifier that classifying an attribute value looks up
AttrTypeId(attr) ==
    IF attr.kind \in {"generic", "ndarray"} THEN attr.dtype
    ELSE "<class '" \o attr.items[1].pytype \o "'>"

VarTypesAre(default) ==
    IsCall("assemble_erddap_variables_dict") =>
        \A i \in 1..Len(call.data.variables) :
            ret.vardict[i].v.dataType =
                TagOrDefault(call.data.variables[i].dtype, default)

\* C1 as stated: a recognized identifier gets its fixed tag; an unrecognized
\* one gets "float" in each of the four attribute shapes and "float64" for a
\* variable's storage type.
C1_Original ==
    /\ (IsCall("get_attr_name_type_val_for_erddap") /\ ret.exc = "") =>
           ret.fields.type = TagOrDefault(AttrTypeId(call.attr), "float")
    /\ VarTypesAre("float64")

\* C1 as amended: a recognized identifier gets its fixed tag; an unrecognized
\* one gets "float" for a numeric scalar or a numeric array, "String" for a
\* generic list or a generic scalar, and "float64" for a variable's storage
\* type.
C1_TypeMapper ==
    /\ (IsCall("get_attr_name_type_val_for_erddap") /\ ret.exc = "") =>
           ret.fields.type =
               TagOrDefault(AttrTypeId(call.attr),
                            IF call.attr.kind \in {"generic", "ndarray"}
                            THEN "float" ELSE "String")
    /\ VarTypesAre("float64")

C1_Witness ==
    /\ IsCall("get_attr_name_type_val_for_erddap")
    /\ call.attr.kind = "list"
    /\ ret.exc = ""
    /\ AttrTypeId(call.attr) \notin RecognizedIds
    /\ ret.fields.type = "String"

\* the override rule of the Variable Descriptor Builder
ResolvedName(user, varname) ==
    IF varname \in DOMAIN user /\ "destinationName" \in DOMAIN user[varname]
    THEN user[varname].destinationName
    ELSE varname

\* C2: assemble_erddap_variables_dict makes exactly one descriptor per
\* variable; its sourceName is the variable's name and its destinationName is
\* the override's destinationName when the override mapping has an entry for
\* the variable that carries one, and the sourceName otherwise.
C2_Descriptors ==
    IsCall("assemble_erddap_variables_dict") =>
        LET vs == call.data.variables
            user == call.user_config_variable_attrs
        IN  /\ Len(ret.vardict) = Len(vs)
            /\ \A i \in 1..Len(vs) :
                /\ ret.vardict[i].k = vs[i].name
                /\ ret.vardict[i].v.sourceName = vs[i].name
                /\ ret.vardict[i].v.destinationName = ResolvedName(user, vs[i].name)

C2_Witness ==
    /\ IsCall("assemble_erddap_variables_dict")
    /\ Len(call.data.variables) = 2
    /\ \E i, j \in 1..2 :
        /\ call.data.variables[i].name = "temp"
        /\ call.data.variables[j].name = "sal"
    /\ DOMAIN call.user_config_variable_attrs = {"temp", "sal"}
    /\ \E i, j \in 1..2 :
        /\ ret.vardict[i].v.destinationName = "T"
        /\ ret.vardict[j].v.destinationName = "sal"

\* C6: get_attr_name_type_val_for_erddap never raises: every value of the
\* four shapes, an empty list and an empty array included, gets a record
\* with name, type and value.
C6_NoErrorCases ==
    IsCall("get_attr_name_type_val_for_erddap") =>
        /\ ret.exc = ""
        /\ DOMAIN ret.fields = {"name", "type", "value"}
        /\ ret.fields.name = call.name

\* C10: every dataType of a variable descriptor and every type of a
\* rendered attribute is one of byte, short, char, int, long, float, double,
\* String.
DestinationSet == {"byte", "short", "char", "int", "long", "float", "double", "String"}
C10_TagsInDestinationSet ==
    /\ (IsCall("get_attr_name_type_val_for_erddap") /\ ret.exc = "") =>
           ret.fields.type \in DestinationSet
    /\ (IsCall("assemble_erddap_variables_dict")
            \/ IsCall("assemble_basic_erddap_variables_dict")) =>
           \A i \in 1..Len(ret.vardict) :
               ret.vardict[i].v.dataType \in DestinationSet

\* ---- C3
Matches(v, dim_names) ==
    \E i \in 1..Len(v.dimensions), j \in 1..Len(dim_names) :
        v.dimensions[i] = dim_names[j]
NotComma(a) == a # ","
\* the names of a comma-joined string
Names(s) == SelectSeq(s, NotComma)
CommaJoined(names) == Join(<<",">>, [i \in 1..Len(names) |-> <<names[i]>>])

\* C3 as stated, for one group: a variable's destinationName is in the
\* result if and only if one of its dimensions is in the group's list, at most
\* once, and the names are in the variables' iteration order.
GroupResultAsStated(vs, dim_names, user, result) ==
    LET names == Names(result)
    IN  /\ result = CommaJoined(names)
        /\ \A i \in 1..Len(vs) :
            /\ (\E k \in 1..Len(names) : names[k] = ResolvedName(user, vs[i].name))
                   <=> Matches(vs[i], dim_names)
            /\ Cardinality({k \in 1..Len(names) :
                               names[k] = ResolvedName(user, vs[i].name)}) <= 1
        /\ \A k, l \in 1..Len(names) :
            k < l => \E i, j \in 1..Len(vs) :
                        /\ i < j
                        /\ names[k] = ResolvedName(user, vs[i].name)
                        /\ names[l] = ResolvedName(user, vs[j].name)

RECURSIVE MatchedNamesFrom(_, _, _, _)
MatchedNamesFrom(vs, dim_names, user, i) ==
    IF i > Len(vs) THEN <<>>
    ELSE (IF Matches(vs[i], dim_names)
          THEN <<ResolvedName(user, vs[i].name)>> ELSE <<>>)
         \o MatchedNamesFrom(vs, dim_names, user, i + 1)

\* C3 as amended, for one group: the result is the comma-joined
\* destinationNames of exactly the variables with a dimension in the group's
\* list, one entry per such variable, in the variables' iteration order.
GroupResultIs(vs, dim_names, user, result) ==
    result = CommaJoined(MatchedNamesFrom(vs, dim_names, user, 1))

ForEveryGroup(P(_, _, _, _)) ==
    /\ IsCall("get_cdm_variables") =>
           P(call.ds.variables, call.dim_names, call.vars_attrs_dict, ret.text)
    /\ IsCall("create_cdm_variables_dict") =>
           /\ Len(ret.cdmdict) = Len(call.cdm_data_variable_types)
           /\ \A g \in 1..Len(call.cdm_data_variable_types) :
               /\ ret.cdmdict[g].k = call.cdm_data_variable_types[g].k
               /\ P(call.nc.variables, call.cdm_data_variable_types[g].v,
                    call.user_config_var_attrs, ret.cdmdict[g].v)

\* C3 as stated: for every configured group and every variable, the
\* variable's destinationName is in the group's comma-joined result if and
\* only if one of its dimensions is in the group's list, at most once, in
\* iteration order.
C3_Original == ForEveryGroup(GroupResultAsStated)

\* C3 as amended: for every configured group the result is the comma-joined
\* destinationNames (override rule of C2) of exactly the variables that have
\* a dimension in the group's list, one entry per such variable even when
\* several of its dimensions match, in the file's variable iteration order;
\* two variables that resolve to the same destinationName give two entries.
C3_GroupMembers == ForEveryGroup(GroupResultIs)

C3_Witness ==
    /\ IsCall("get_cdm_variables")
    /\ Len(call.ds.variables) = 2
    /\ call.ds.variables[1].dimensions = <<"dimA", "dimB">>
    /\ call.ds.variables[2].dimensions = <<>>
    /\ call.dim_names = <<"dimB", "dimA">>
    /\ call.ds.variables[1].name = "temp"
    /\ call.vars_attrs_dict = [temp |-> [destinationName |-> "T"]]
    /\ ret.text = <<"T">>

\* ---- C4
ATT_OPEN == "    <att name=\""
ATTS_OPEN == "</dataType>\n  <addAttributes>\n"
VAR_CLOSE == "\n  </addAttributes>\n</dataVariable>"

Positions(s, a) == {i \in 1..Len(s) : s[i] = a}
Nth(S, n) == CHOOSE x \in S : Cardinality({y \in S : y < x}) = n - 1

\* the lines of a text; the empty text has none
Lines(text) == IF text = <<>> THEN <<>> ELSE split(text, "\n")

\* text is one <att> line per item of atts, in order, newline-joined
AttLinesOf(text, atts) ==
    LET lines == Lines(text)
    IN  /\ Len(lines) = Len(atts)
        /\ \A i \in 1..Len(atts) :
            /\ Len(lines[i]) >= 3
            /\ lines[i][1] = ATT_OPEN
            /\ lines[i][2] = atts[i].k
            /\ lines[i][Len(lines[i])] = "</att>"
            /\ Cardinality(Positions(lines[i], ATT_OPEN)) = 1

\* the text between <addAttributes> and </addAttributes> of the i-th block
AttSection(markup, i) ==
    SubSeq(markup, Nth(Positions(markup, ATTS_OPEN), i) + 1,
                   Nth(Positions(markup, VAR_CLOSE), i) - 1)

\* C4: in a variable's rendered markup every attribute key of the variable
\* is in exactly one <att> line, no line is added, and the lines are in the
\* attribute mapping's iteration order, newline-joined.
C4_AttLines ==
    /\ (IsCall("create_att_tags") /\ ret.exc = "") =>
           AttLinesOf(ret.text, call.atts)
    /\ IsCall("assemble_erddap_variables_dict") =>
           \A i \in 1..Len(call.data.variables) :
               ret.vardict[i].v.attributes = call.data.variables[i].attrs
    /\ (IsCall("dump_variables_as_erddap_string") /\ ret.exc = "") =>
           /\ Cardinality(Positions(ret.text, ATTS_OPEN)) = Len(call.vardict)
           /\ Cardinality(Positions(ret.text, VAR_CLOSE)) = Len(call.vardict)
           /\ \A i \in 1..Len(call.vardict) :
               AttLinesOf(AttSection(ret.text, i), call.vardict[i].v.attributes)

C4_Witness ==
    /\ IsCall("dump_variables_as_erddap_string")
    /\ ret.exc = ""
    /\ Len(call.vardict) = 2
    /\ Len(call.vardict[1].v.attributes) = 0
    /\ Len(call.vardict[2].v.attributes) = 2
    /\ Len(Lines(AttSection(ret.text, 2))) = 2

\* ---- C5
SubsetEnabled ==
    /\ RequiredKeys \subseteq DOMAIN cfg
    /\ "use_cdm_vars_as_subset" \in DOMAIN cfg
    /\ cfg.use_cdm_vars_as_subset
SubsetDisabled ==
    /\ RequiredKeys \subseteq DOMAIN cfg
    /\ ("use_cdm_vars_as_subset" \in DOMAIN cfg => ~cfg.use_cdm_vars_as_subset)
\* the fields of a file have been computed
FieldsComputed == fields_dict.filename # <<>>
FirstGroupNames ==
    CommaJoined(MatchedNamesFrom(glob(listing)[idx].data.variables,
                                 cfg.cdm_data_type_dims[1].v,
                                 cfg.user_config_variable_attrs, 1))

\* C5: with subset tagging enabled and two or more groups configured, the
\* subsetVariables field is a single tag whose value is the first group's
\* matched-names string and the run goes on (no exception of
\* create_subset_variables_tag ends it); with subset tagging disabled the
\* field is the empty string.
C5_SubsetTag ==
    /\ (SubsetEnabled /\ Len(cfg.cdm_data_type_dims) >= 2) =>
           /\ error # "TypeError"
           /\ FieldsComputed =>
                  fields_dict.subsetVariables =
                      <<"<att name=\"subsetVariables\">">> \o FirstGroupNames
                          \o <<"</att>">>
    /\ (SubsetDisabled /\ FieldsComputed) => fields_dict.subsetVariables = <<>>

\* ---- C7
NotNc(f) == f.name = <<>> \/ f.name[Len(f.name)] # ".nc"
IsNc(f) == ~NotNc(f)
\* the source files the "*.nc" listing matches
Matched == SelectSeq(listing, IsNc)

\* C7: a run that aborts never opens the output file for writing; the
\* output is opened only as the last step, after every source file has been
\* processed and the header, if enabled, has been loaded.
C7_NoPartialOutput ==
    /\ (pc = "aborted" \/ error # "") => ~output.opened
    /\ output.opened =>
           /\ pc = "done"
           /\ idx = Len(Matched)
           /\ Len(datasets) = Len(Matched)
           /\ cfg.add_header_footer =>
                  (disk.header.exists /\ header = disk.header.text)

C7_Witness ==
    /\ pc = "aborted"
    /\ Len(datasets) >= 1
    /\ ~output.opened

\* ---- C8
\* C8: at every point of a run at most one source file handle is open (each
\* is released before the next file is opened), and none is open when the
\* output is written.
C8_HandlesNeverOverlap ==
    /\ Cardinality(handles) <= 1
    /\ output.opened => handles = {}

\* ---- C9
RECURSIVE NewlineJoined(_, _)
NewlineJoined(d, k) ==
    IF k = 0 THEN <<>>
    ELSE IF k = 1 THEN d[1]
    ELSE NewlineJoined(d, k - 1) \o <<"\n">> \o d[k]

FilledFragment(file) == format(disk.fragment.text, FieldsOf(file, file.data).val).val

\* C9: the output holds exactly one filled fragment per matched source file,
\* in directory-listing order; with header/footer it is header + "\n" + the
\* fragments joined by "\n" + "\n</erddapDatasets>" (header +
\* "\n\n</erddapDatasets>" for no file), without it the fragments joined by
\* "\n" (the empty string for no file).
C9_FinalAssembly ==
    pc = "done" =>
        /\ output.opened
        /\ Len(datasets) = Len(Matched)
        /\ \A i \in 1..Len(Matched) : datasets[i] = FilledFragment(Matched[i])
        /\ output.text =
               IF cfg.add_header_footer
               THEN disk.header.text \o <<"\n">>
                        \o NewlineJoined(datasets, Len(datasets))
                        \o <<"\n", "</erddapDatasets>">>
               ELSE NewlineJoined(datasets, Len(datasets))
        /\ Len(Matched) = 0 =>
               output.text =
                   IF cfg.add_header_footer
                   THEN disk.header.text \o <<"\n", "\n", "</erddapDatasets>">>
                   ELSE <<>>

C9_Witness ==
    /\ pc = "done"
    /\ cfg.add_header_footer
    /\ Len(datasets) = 2
    /\ output.text # <<>>

\* ---- C11
\* C11: for every source file the "*.nc" listing matches, the dataset_id put
\* into the fragment is the filename without its trailing ".nc" only
\* (dataset_id + ".nc" = filename), also when the name holds ".nc" elsewhere,
\* as in "a.nc.v2.nc".
C11_DatasetId ==
    FieldsComputed =>
        /\ \E i \in 1..Len(Matched) : fields_dict.filename = Matched[i].name
        /\ fields_dict.dataset_id \o <<".nc">> = fields_dict.filename

====
